---- MODULE Spec2Model ----
(***************************************************************************)
(* TrendLab (src/app.py): a Streamlit script.  The state that outlives a   *)
(* script run is st.session_state (the field "page") and the values of the *)
(* widgets the last run rendered; everything else (the table, the          *)
(* statistics) is local to one run.  Every user interaction is one action: *)
(* the widget value changes, an on_click callback (if any) runs, and the   *)
(* whole script reruns top to bottom.                                      *)
(*                                                                         *)
(* Column names are sequences of one-character strings, so that            *)
(* c.lower() and the substring test "date" in ... are computed.            *)
(* p-values are integers in units of 1e-4 (0.05 is 500); NaN is a separate *)
(* value that compares false with everything, as a float nan does.         *)
(* The statistics libraries (to_datetime, seasonal_decompose, adfuller,    *)
(* ARIMA, ttest_ind, chi2_contingency) are not modelled numerically: each  *)
(* call returns or raises, and a test returns some p-value.                *)
(* An uploaded file is one that pandas.read_csv parses, with at least one  *)
(* column.                                                                 *)
(***************************************************************************)
EXTENDS Integers, Sequences, FiniteSets

\* session_state: st.session_state, a mapping from keys to values.
\* widgets: the values Streamlit keeps for the widgets of the last run.
\* screen: what the last run rendered and computed.
\* clicked: the navigation button whose click started the last run, "" when
\* the last run was started by anything else.
VARIABLES session_state, widgets, screen, clicked

vars == <<session_state, widgets, screen, clicked>>

----------------------------------------------------------------------------
(* Bounds *)

\* Most columns in an uploaded CSV.
MaxCols == 3

----------------------------------------------------------------------------
(* Program constants *)

\* A slider whose range starts five steps lower, at 0.
SliderMinZero == 5 - 5
SliderMin == 5
SliderMax == 60
SliderDefault == 12

\* 0.05 in units of 1e-4.
Alpha == 500

\* The float nan a test can return as its p-value.
NaN == -1

----------------------------------------------------------------------------
(* Strings *)

UpperCase == <<"A","B","C","D","E","F","G","H","I","J","K","L","M",
               "N","O","P","Q","R","S","T","U","V","W","X","Y","Z">>
LowerCase == <<"a","b","c","d","e","f","g","h","i","j","k","l","m",
               "n","o","p","q","r","s","t","u","v","w","x","y","z">>

\* str.lower() on one character.
LowerChar(ch) ==
    IF \E i \in 1..Len(UpperCase) : UpperCase[i] = ch
    THEN LowerCase[CHOOSE i \in 1..Len(UpperCase) : UpperCase[i] = ch]
    ELSE ch

\* str.lower()
lower(s) == [i \in 1..Len(s) |-> LowerChar(s[i])]

\* sub in s
Contains(sub, s) ==
    \E i \in 1..(Len(s) - Len(sub) + 1) : SubSeq(s, i, i + Len(sub) - 1) = sub

\* The literal "date" of line 116.
DateLiteral == <<"d","a","t","e">>

\* "dat" in c.lower(): the literal mistyped.
IsDateNameTypo(c) == Contains(<<"d","a","t">>, lower(c))

\* "date" in c.lower()
IsDateName(c) == Contains(DateLiteral, lower(c))

----------------------------------------------------------------------------
(* Uploaded tables: df.columns with each column's dtype *)

\* The columns uploaded tables are built from.  The names cover an exact
\* match in other case, a match inside a longer name, a near miss and a
\* name without the substring; the dtypes are those read_csv infers.
Columns ==
    { [name |-> <<"D","a","t","e">>,         dtype |-> "object"],
      [name |-> <<"x","D","A","T","E","s">>, dtype |-> "int64"],
      [name |-> <<"d","a","t","a">>,         dtype |-> "object"],
      [name |-> <<"y">>,                     dtype |-> "float64"] }

ColumnNames == { c.name : c \in Columns }

\* read_csv gives every column its own name.
DistinctNames(t) ==
    \A i, j \in 1..Len(t) : i # j => t[i].name # t[j].name

Tables ==
    { t \in UNION { [1..n -> Columns] : n \in 1..MaxCols } : DistinctNames(t) }

\* The names of ColumnNames that line 116 keeps.
DateNames == { n \in ColumnNames : IsDateName(n) }

\* date_cols = [c for c in df.columns if "date" in c.lower()]
date_cols(df) ==
    LET IsDateCol(col) == col.name \in DateNames
        kept == SelectSeq(df, IsDateCol)
    IN  [i \in 1..Len(kept) |-> kept[i].name]

\* date_cols[-1]: the last match instead of the first.
date_index_last(dcols) == dcols[Len(dcols)]

\* date_cols[0]
date_index(dcols) == dcols[1]

\* df.set_index(name, inplace=True): the column leaves df.columns.
set_index(df, name) ==
    LET Keep(col) == col.name # name
    IN  SelectSeq(df, Keep)

\* df.select_dtypes(include=kinds).columns
select_dtypes(df, kinds) ==
    LET Keep(col) == col.dtype \in kinds
        kept == SelectSeq(df, Keep)
    IN  [i \in 1..Len(kept) |-> kept[i].name]

NumericDtypes == {"float64", "int64"}
ObjectDtypes == {"object"}

\* st.selectbox(label, options): the option at the stored position, the
\* first one when the stored position is not an option; None (here <<>>)
\* when there are no options.  The result is <<>> or <<option>>.
selectbox(options, idx) ==
    IF Len(options) = 0 THEN <<>>
    ELSE IF idx \in 1..Len(options) THEN <<options[idx]>>
    ELSE <<options[1]>>

\* st.slider(label, min, max, value): the stored value, or the default.
slider(min, max, value, stored) ==
    IF stored # <<>> THEN stored[1] ELSE value

\* p <= 0.05
LessThanOrEqual(p, a) == p # NaN /\ p <= a

\* p < 0.05 on floats: false when p is nan.
LessThan(p, a) == p # NaN /\ p < a

----------------------------------------------------------------------------
(* What one script run renders and computes *)

\* elems: the elements rendered and the library calls made, in order.
\* status: "ok" (ran to the end), "stop" (st.stop()), "exception" (an
\* uncaught exception ended the run).  The other fields are the run's
\* local values, <<>> when the run did not compute them.
Blank ==
    [ page |-> "none", elems |-> <<>>, status |-> "ok",
      index |-> <<>>, columns |-> <<>>, num_cols |-> <<>>, cat_cols |-> <<>>,
      column |-> <<>>, adf_p |-> <<>>, t_p |-> <<>>, chi_p |-> <<>>,
      steps |-> <<>> ]

Emit(o, es) == [o EXCEPT !.elems = @ \o es]
Raise(o, es) == [o EXCEPT !.elems = @ \o es, !.status = "exception"]

\* if p < 0.05: st.success(positive) else: st.warning(negative)
Verdict(p, positive, negative) ==
    IF LessThan(p, Alpha) THEN <<positive>> ELSE <<negative>>

\* Lines 166-183: the forecast section.
Forecast(o, w, lib) ==
    LET steps == slider(SliderMin, SliderMax, SliderDefault, w.steps)
        o1 == Emit(o, <<"slider:Forecast Steps", "ARIMA.fit">>)
    IN  IF lib.arima = "fit_raises"
        THEN Emit(o1, <<"warning:ARIMA failed. Try more data.">>)
        ELSE IF lib.arima = "forecast_raises"
        THEN [Emit(o1, <<"forecast", "warning:ARIMA failed. Try more data.">>)
                EXCEPT !.steps = <<steps>>]
        ELSE [Emit(o1, <<"forecast", "pyplot:forecast">>)
                EXCEPT !.steps = <<steps>>]

\* Lines 154-164: the ADF section, outside any try.
ADF(o, w, lib) ==
    IF lib.adf = <<>>
    THEN Raise(o, <<"adfuller">>)
    ELSE Forecast(
           [Emit(o, <<"adfuller", "write:ADF">>
                    \o Verdict(lib.adf[1], "success:Data is Stationary",
                               "warning:Data is Not Stationary"))
              EXCEPT !.adf_p = lib.adf],
           w, lib)

\* The decomposition without its try/except.
DecompositionUnguarded(o, w, lib) ==
    IF lib.decompose = "raise"
    THEN Raise(o, <<"seasonal_decompose">>)
    ELSE ADF(Emit(o, <<"seasonal_decompose", "pyplot:decomposition">>), w, lib)

\* Lines 142-152: the decomposition section.
Decomposition(o, w, lib) ==
    IF lib.decompose = "raise"
    THEN ADF(Emit(o, <<"seasonal_decompose", "warning:Decomposition error">>), w, lib)
    ELSE ADF(Emit(o, <<"seasonal_decompose", "pyplot:decomposition">>), w, lib)

\* Lines 128-140: column selection and the line plot.  With no numeric
\* column the selectbox gives None and df[None] raises KeyError.
SelectAndPlot(o, df, w, lib) ==
    LET num_cols == select_dtypes(df, NumericDtypes)
        column == selectbox(num_cols, w.column)
        o1 == [Emit(o, <<"selectbox:Select Numeric Column">>)
                 EXCEPT !.num_cols = num_cols, !.column = column]
    IN  IF column = <<>>
        THEN Raise(o1, <<>>)
        ELSE Decomposition(Emit(o1, <<"pyplot:line">>), w, lib)

\* Lines 111-126: reading the upload and choosing the date index.
Ingest(o, file, w, lib) ==
    LET df == file
        dcols == date_cols(df)
        o1 == Emit(o, <<"read_csv">>)
    IN  IF Len(dcols) = 0
        THEN [Emit(o1, <<"error:No date column found!">>) EXCEPT !.status = "stop"]
        ELSE IF lib.to_datetime = "raise"
        THEN Raise(o1, <<"to_datetime">>)
        ELSE LET indexed == set_index(df, date_index(dcols))
             IN  SelectAndPlot(
                   [Emit(o1, <<"to_datetime", "set_index", "write:df.head">>)
                      EXCEPT !.index = <<date_index(dcols)>>, !.columns = indexed],
                   indexed, w, lib)

\* Lines 104-183.
TimeSeriesPage(w, lib) ==
    LET o == [Blank EXCEPT !.page = "time_series",
                           !.elems = <<"button:Back", "file_uploader">>]
    IN  IF w.file = <<>> THEN o ELSE Ingest(o, w.file[1], w, lib)

\* Lines 201-218: the T-Test branch.  st.button is true in the run its
\* click started.
TTest(o, df, w, ev, lib) ==
    LET num_cols == select_dtypes(df, NumericDtypes)
        c1 == selectbox(num_cols, w.sample1)
        c2 == selectbox(num_cols, w.sample2)
        o1 == [Emit(o, <<"selectbox:Sample 1", "selectbox:Sample 2",
                         "button:Run T-Test">>)
                 EXCEPT !.num_cols = num_cols]
    IN  IF ev # "Run T-Test" THEN o1
        ELSE IF c1 = <<>> THEN Raise(o1, <<>>)
        ELSE [Emit(o1, <<"ttest_ind", "write:T-Test">>
                       \o Verdict(lib.ttest[1],
                                  "success:Reject H0 - Significant Difference",
                                  "warning:Fail to Reject H0"))
                EXCEPT !.t_p = lib.ttest]

\* if len(cat_cols) < 1
TooFewCategoriesOffByOne(cat_cols) == Len(cat_cols) < 1

\* if len(cat_cols) < 2
TooFewCategories(cat_cols) == Len(cat_cols) < 2

\* Lines 220-240: the Chi-Square branch.
ChiSquare(o, df, w, ev, lib) ==
    LET cat_cols == select_dtypes(df, ObjectDtypes)
        c1 == selectbox(cat_cols, w.cat1)
        c2 == selectbox(cat_cols, w.cat2)
        o1 == [o EXCEPT !.cat_cols = cat_cols]
        o2 == Emit(o1, <<"selectbox:Category 1", "selectbox:Category 2",
                         "button:Run Chi-Square">>)
    IN  IF TooFewCategories(cat_cols)
        THEN Emit(o1, <<"error:Need 2 categorical columns!">>)
        ELSE IF ev # "Run Chi-Square" THEN o2
        ELSE IF lib.chi2 = <<>>
        THEN Raise(o2, <<"crosstab", "chi2_contingency">>)
        ELSE [Emit(o2, <<"crosstab", "chi2_contingency", "write:Chi-Square">>
                       \o Verdict(lib.chi2[1],
                                  "success:Reject H0 - Dependent Variables",
                                  "warning:Fail to Reject H0 - Independent"))
                EXCEPT !.chi_p = lib.chi2]

Tests == <<"T-Test", "Chi-Square Test">>

\* Lines 186-240.
HypothesisPage(w, ev, lib) ==
    LET o == [Blank EXCEPT !.page = "hypothesis",
                           !.elems = <<"button:Back", "file_uploader">>]
        o1 == [Emit(o, <<"read_csv", "write:df.head", "selectbox:Select Test">>)
                 EXCEPT !.columns = w.file[1]]
    IN  IF w.file = <<>> THEN o
        ELSE IF selectbox(Tests, w.test) = <<"T-Test">>
        THEN TTest(o1, w.file[1], w, ev, lib)
        ELSE ChiSquare(o1, w.file[1], w, ev, lib)

\* st.session_state.page = page
go_to(ss, page) ==
    [k \in DOMAIN ss \cup {"page"} |-> IF k = "page" THEN page ELSE ss[k]]

\* Lines 84-101: the home page; go_to runs inline, after the dispatch.
HomePage(ss, ev) ==
    LET ss1 == IF ev = "Time Series Analysis" THEN go_to(ss, "time_series") ELSE ss
        ss2 == IF ev = "Hypothesis Testing" THEN go_to(ss1, "hypothesis") ELSE ss1
    IN  [ ss |-> ss2,
          out |-> [Blank EXCEPT !.page = "home",
                     !.elems = <<"button:Time Series Analysis",
                                 "button:Hypothesis Testing">>] ]

\* The initial page under another spelling.
InitPageTypo(ss) == IF "page" \in DOMAIN ss THEN ss ELSE go_to(ss, "Home")

\* The page set on every run, not only when the key is missing.
InitPageAlways(ss) == go_to(ss, "home")

\* Lines 77-78: if "page" not in st.session_state: page = "home"
InitPage(ss) == IF "page" \in DOMAIN ss THEN ss ELSE go_to(ss, "home")

\* One run of the script, top to bottom.
Script(ss, w, ev, lib) ==
    LET ss1 == InitPage(ss)
    IN  IF ss1.page = "home" THEN HomePage(ss1, ev)
        ELSE IF ss1.page = "time_series"
        THEN [ss |-> ss1, out |-> TimeSeriesPage(w, lib)]
        ELSE IF ss1.page = "hypothesis"
        THEN [ss |-> ss1, out |-> HypothesisPage(w, ev, lib)]
        ELSE [ss |-> ss1, out |-> Blank]

----------------------------------------------------------------------------
(* Library outcomes of one run *)

PValues == {Alpha - 1, Alpha, Alpha + 1, NaN}
Returned == { <<p>> : p \in PValues }

NoLib ==
    [ to_datetime |-> "ok", decompose |-> "ok", adf |-> <<Alpha>>,
      arima |-> "ok", ttest |-> <<Alpha>>, chi2 |-> <<Alpha>> ]

\* What the time-series page's calls can do: each later call matters only
\* when the earlier ones let the run get to it.
LibTimeSeries ==
    { [NoLib EXCEPT !.to_datetime = "raise"] }
    \cup { [NoLib EXCEPT !.decompose = d, !.adf = <<>>] : d \in {"ok", "raise"} }
    \cup { [NoLib EXCEPT !.decompose = x[1], !.adf = x[2], !.arima = x[3]] :
             x \in {"ok", "raise"} \X Returned
                   \X {"ok", "fit_raises", "forecast_raises"} }

LibTTest == { [NoLib EXCEPT !.ttest = r] : r \in Returned }
LibChiSquare == { [NoLib EXCEPT !.chi2 = r] : r \in Returned \cup {<<>>} }


----------------------------------------------------------------------------
(* Widget state *)

NoWidgets ==
    [ file |-> <<>>, column |-> 1, steps |-> <<>>, test |-> 1,
      sample1 |-> 1, sample2 |-> 1, cat1 |-> 1, cat2 |-> 1 ]

Rendered(o, e) == \E i \in 1..Len(o.elems) : o.elems[i] = e

\* Streamlit keeps a widget's value only while runs keep rendering it, and
\* a selectbox's position only while it is one of its options.
Retain(w, o) ==
    LET Pos(e, idx, options) ==
            IF Rendered(o, e) /\ idx \in 1..Len(options) THEN idx ELSE 1
    IN  [ file    |-> IF Rendered(o, "file_uploader") THEN w.file ELSE <<>>,
          column  |-> Pos("selectbox:Select Numeric Column", w.column, o.num_cols),
          steps   |-> IF Rendered(o, "slider:Forecast Steps") THEN w.steps ELSE <<>>,
          test    |-> Pos("selectbox:Select Test", w.test, Tests),
          sample1 |-> Pos("selectbox:Sample 1", w.sample1, o.num_cols),
          sample2 |-> Pos("selectbox:Sample 2", w.sample2, o.num_cols),
          cat1    |-> Pos("selectbox:Category 1", w.cat1, o.cat_cols),
          cat2    |-> Pos("selectbox:Category 2", w.cat2, o.cat_cols) ]

\* The positions the user can drag the forecast slider to.
SliderPositions == {SliderMin, SliderMax}

----------------------------------------------------------------------------
(* The session *)

NavigationButtons == {"Time Series Analysis", "Hypothesis Testing", "Back"}

Init ==
    /\ session_state = <<>>
    /\ widgets = NoWidgets
    /\ screen = Blank
    /\ clicked = ""

\* The outcomes to draw for a run: those of the calls the run gets to when
\* every call before them returns.
Outcomes(ss, w, ev) ==
    LET best == Script(ss, w, ev, NoLib).out
    IN  IF Rendered(best, "seasonal_decompose") THEN LibTimeSeries
        ELSE IF Rendered(best, "to_datetime")
        THEN {NoLib, [NoLib EXCEPT !.to_datetime = "raise"]}
        ELSE IF Rendered(best, "ttest_ind") THEN LibTTest
        ELSE IF Rendered(best, "chi2_contingency") THEN LibChiSquare
        ELSE {NoLib}

\* A rerun of the script with session state `ss`, widget values `w`,
\* started by the interaction `ev`.
Run(ss, w, ev) ==
    \E lib \in Outcomes(ss, w, ev) :
        LET r == Script(ss, w, ev, lib)
        IN  /\ session_state' = r.ss
            /\ screen' = r.out
            /\ widgets' = Retain(w, r.out)
            /\ clicked' = IF ev \in NavigationButtons THEN ev ELSE ""

\* The browser opens the app: the first run of the session.
FirstLoad ==
    /\ screen.page = "none"
    /\ Run(session_state, widgets, "load")

\* A rerun with nothing changed (the Rerun menu entry).
Rerun ==
    /\ screen.page # "none"
    /\ Run(session_state, widgets, "rerun")

\* Lines 94-95.
ClickTimeSeries ==
    /\ Rendered(screen, "button:Time Series Analysis")
    /\ Run(session_state, widgets, "Time Series Analysis")

\* Lines 98-99.
ClickHypothesis ==
    /\ Rendered(screen, "button:Hypothesis Testing")
    /\ Run(session_state, widgets, "Hypothesis Testing")

\* Lines 106 and 188: on_click runs go_to("home") before the rerun.
ClickBack ==
    /\ Rendered(screen, "button:Back")
    /\ Run(go_to(session_state, "home"), widgets, "Back")

\* Lines 109 and 191: a file is put into the empty uploader (to change the
\* file, the user removes it and uploads another).
Upload ==
    /\ Rendered(screen, "file_uploader")
    /\ widgets.file = <<>>
    /\ \E t \in Tables :
          Run(session_state, [widgets EXCEPT !.file = <<t>>], "upload")

RemoveFile ==
    /\ Rendered(screen, "file_uploader")
    /\ widgets.file # <<>>
    /\ Run(session_state, [widgets EXCEPT !.file = <<>>], "remove")

\* Line 130.
SelectColumn ==
    /\ Rendered(screen, "selectbox:Select Numeric Column")
    /\ \E i \in 1..Len(screen.num_cols) :
          Run(session_state, [widgets EXCEPT !.column = i], "select")

\* Line 169.
MoveSlider ==
    /\ Rendered(screen, "slider:Forecast Steps")
    /\ \E v \in SliderPositions :
          Run(session_state, [widgets EXCEPT !.steps = <<v>>], "slider")

\* Line 201.
SelectTest ==
    /\ Rendered(screen, "selectbox:Select Test")
    /\ \E i \in 1..Len(Tests) :
          Run(session_state, [widgets EXCEPT !.test = i], "select")

\* Lines 205-206.
SelectSample ==
    /\ Rendered(screen, "selectbox:Sample 1")
    /\ \E i \in 1..Len(screen.num_cols) :
          \/ Run(session_state, [widgets EXCEPT !.sample1 = i], "select")
          \/ Run(session_state, [widgets EXCEPT !.sample2 = i], "select")

\* Lines 225-226.
SelectCategory ==
    /\ Rendered(screen, "selectbox:Category 1")
    /\ \E i \in 1..Len(screen.cat_cols) :
          \/ Run(session_state, [widgets EXCEPT !.cat1 = i], "select")
          \/ Run(session_state, [widgets EXCEPT !.cat2 = i], "select")

\* Line 208.
ClickRunTTest ==
    /\ Rendered(screen, "button:Run T-Test")
    /\ Run(session_state, widgets, "Run T-Test")

\* Line 228.
ClickRunChiSquare ==
    /\ Rendered(screen, "button:Run Chi-Square")
    /\ Run(session_state, widgets, "Run Chi-Square")

Next ==
    \/ FirstLoad
    \/ Rerun
    \/ ClickTimeSeries
    \/ ClickHypothesis
    \/ ClickBack
    \/ Upload
    \/ RemoveFile
    \/ SelectColumn
    \/ MoveSlider
    \/ SelectTest
    \/ SelectSample
    \/ SelectCategory
    \/ ClickRunTTest
    \/ ClickRunChiSquare

Spec == Init /\ [][Next]_vars

----------------------------------------------------------------------------
(* Properties *)

Loaded == screen.page # "none"

\* The names of Columns that contain "date" in some case, written out.
DateNamed == { <<"D","a","t","e">>, <<"x","D","A","T","E","s">> }

HasDateNamed(t) == \E i \in 1..Len(t) : t[i].name \in DateNamed

\* The position of the first date-named column of t.
FirstDateNamed(t) ==
    CHOOSE i \in 1..Len(t) :
        /\ t[i].name \in DateNamed
        /\ \A j \in 1..(i - 1) : t[j].name \notin DateNamed

\* t without its k-th column.
Without(t, k) == SubSeq(t, 1, k - 1) \o SubSeq(t, k + 1, Len(t))

\* The names of the columns of t whose dtype is in kinds, in order.
NamesOfKind(t, kinds) ==
    LET F[i \in 0..Len(t)] ==
            IF i = 0 THEN <<>>
            ELSE IF t[i].dtype \in kinds THEN Append(F[i - 1], t[i].name)
            ELSE F[i - 1]
    IN  F[Len(t)]

\* Everything the time-series page does after the date-column check.
AfterDateCheck ==
    { "to_datetime", "set_index", "write:df.head",
      "selectbox:Select Numeric Column", "pyplot:line",
      "seasonal_decompose", "pyplot:decomposition",
      "warning:Decomposition error", "adfuller", "write:ADF",
      "success:Data is Stationary", "warning:Data is Not Stationary",
      "slider:Forecast Steps", "ARIMA.fit", "forecast", "pyplot:forecast",
      "warning:ARIMA failed. Try more data." }

\* C1: a run of the time-series page on an upload that has no date-named
\* column shows "No date column found!" and stops there: nothing that
\* follows the check (preview, column selection, plot, decomposition, ADF,
\* ARIMA) is reached.
C1_MissingDateColumnStops ==
    (screen.page = "time_series" /\ widgets.file # <<>>
        /\ ~HasDateNamed(widgets.file[1]))
    => /\ Rendered(screen, "error:No date column found!")
       /\ screen.status = "stop"
       /\ \A e \in AfterDateCheck : ~Rendered(screen, e)

C1_Witness ==
    /\ screen.page = "time_series"
    /\ widgets.file = << <<[name |-> <<"d","a","t","a">>, dtype |-> "object"],
                           [name |-> <<"y">>, dtype |-> "float64"]>> >>
    /\ Rendered(screen, "error:No date column found!")

ObjectColumns(t) == { i \in 1..Len(t) : t[i].dtype = "object" }

\* C2: a run of the hypothesis page with Chi-Square Test selected on an
\* upload with fewer than two object columns shows "Need 2 categorical
\* columns!", offers no category selection and builds no contingency table
\* and runs no test; with two or more object columns the error is not shown.
C2_InsufficientCategoricalColumns ==
    (screen.page = "hypothesis" /\ widgets.file # <<>> /\ widgets.test = 2)
    => IF Cardinality(ObjectColumns(widgets.file[1])) < 2
       THEN /\ Rendered(screen, "error:Need 2 categorical columns!")
            /\ ~Rendered(screen, "selectbox:Category 1")
            /\ ~Rendered(screen, "selectbox:Category 2")
            /\ ~Rendered(screen, "button:Run Chi-Square")
            /\ ~Rendered(screen, "crosstab")
            /\ ~Rendered(screen, "chi2_contingency")
            /\ screen.chi_p = <<>>
       ELSE ~Rendered(screen, "error:Need 2 categorical columns!")

C2_Witness ==
    /\ screen.page = "hypothesis"
    /\ widgets.test = 2
    /\ widgets.file # <<>>
    /\ Cardinality(ObjectColumns(widgets.file[1])) = 1
    /\ Rendered(screen, "error:Need 2 categorical columns!")

\* The verdict of one executed test: exactly one of the two banners, the
\* positive one exactly when p is a number below 0.05 (500 in units of 1e-4).
VerdictOf(p, positive, negative) ==
    /\ Rendered(screen, positive) <=> (p # NaN /\ p < 500)
    /\ Rendered(screen, negative) <=> ~(p # NaN /\ p < 500)

\* C3: in the ADF test, the t-test and the chi-square test the banner shown
\* is decided by p alone: the positive one iff p < 0.05, else the other, and
\* never both or neither.
C3_VerdictIffBelowAlpha ==
    /\ screen.adf_p # <<>> =>
          VerdictOf(screen.adf_p[1], "success:Data is Stationary",
                    "warning:Data is Not Stationary")
    /\ screen.t_p # <<>> =>
          VerdictOf(screen.t_p[1], "success:Reject H0 - Significant Difference",
                    "warning:Fail to Reject H0")
    /\ screen.chi_p # <<>> =>
          VerdictOf(screen.chi_p[1], "success:Reject H0 - Dependent Variables",
                    "warning:Fail to Reject H0 - Independent")

C3_Witness ==
    /\ screen.chi_p = <<500>>
    /\ Rendered(screen, "warning:Fail to Reject H0 - Independent")

\* C4 as stated: when the decomposition raises, its warning is shown and
\* the ADF section and the ARIMA section are both rendered in that run;
\* when ARIMA raises, its warning is shown and the run ends normally.
C4_Original ==
    /\ Rendered(screen, "warning:Decomposition error") =>
          /\ Rendered(screen, "write:ADF")
          /\ Rendered(screen, "slider:Forecast Steps")
    /\ Rendered(screen, "warning:ARIMA failed. Try more data.") =>
          screen.status = "ok"

\* C4 amended: a decomposition that raises never ends the run: its warning
\* is shown and adfuller is called in that run.  The ADF section is outside
\* any try, so the ARIMA section is rendered exactly when adfuller returns;
\* when adfuller raises the run ends there with an uncaught exception.  When
\* ARIMA fitting or forecasting raises, the warning is the last thing shown
\* and the run ends normally.
C4_DecompositionErrorNotFatal ==
    /\ Rendered(screen, "seasonal_decompose") =>
          /\ Rendered(screen, "pyplot:decomposition")
                \/ Rendered(screen, "warning:Decomposition error")
          /\ Rendered(screen, "adfuller")
          /\ Rendered(screen, "slider:Forecast Steps") <=> screen.adf_p # <<>>
          /\ screen.adf_p = <<>> => screen.status = "exception"
    /\ Rendered(screen, "ARIMA.fit") =>
          /\ screen.status = "ok"
          /\ Rendered(screen, "pyplot:forecast")
                \/ screen.elems[Len(screen.elems)]
                     = "warning:ARIMA failed. Try more data."

C4_Witness ==
    /\ Rendered(screen, "warning:Decomposition error")
    /\ Rendered(screen, "write:ADF")
    /\ Rendered(screen, "warning:ARIMA failed. Try more data.")
    /\ screen.steps = <<>>
    /\ screen.status = "ok"

\* C5: the first run of a session sets page to home, and from then on page
\* is always one of home, time_series, hypothesis.
C5_PageIsAlwaysAPage ==
    /\ [](Loaded => /\ "page" \in DOMAIN session_state
                    /\ session_state.page \in {"home", "time_series", "hypothesis"})
    /\ [][~Loaded => session_state'.page = "home"]_vars

C5_Witness ==
    /\ Loaded
    /\ session_state.page = "hypothesis"
    /\ screen.page = "hypothesis"
    /\ widgets.file # <<>>

\* C6: a click on a navigation button sets page to the button's target:
\* after a run started by such a click, page is the target.
C6_NavigationSetsTarget ==
    /\ clicked = "Time Series Analysis" => session_state.page = "time_series"
    /\ clicked = "Hypothesis Testing" => session_state.page = "hypothesis"
    /\ clicked = "Back" => session_state.page = "home"

\* C7: the steps passed to forecast are between 5 and 60, and are 12 when
\* the slider has not been moved.
C7_ForecastStepsInRange ==
    screen.steps # <<>> =>
        /\ screen.steps[1] \in 5..60
        /\ widgets.steps = <<>> => screen.steps[1] = 12

C7_Witness ==
    /\ screen.steps = <<60>>
    /\ Rendered(screen, "pyplot:forecast")

\* C8: on the time-series page an upload with a date-named column gets past
\* the date check, and the index is the first date-named column in column
\* order: that column is no longer among the columns or the selectable ones;
\* all others, later date-named ones too, stay as data columns in order.
C8_FirstDateColumnIsIndex ==
    (screen.page = "time_series" /\ widgets.file # <<>>
        /\ HasDateNamed(widgets.file[1]))
    => LET t == widgets.file[1]
           k == FirstDateNamed(t)
       IN  /\ ~Rendered(screen, "error:No date column found!")
           /\ Rendered(screen, "to_datetime")
           /\ Rendered(screen, "set_index") =>
                 /\ screen.index = <<t[k].name>>
                 /\ screen.columns = Without(t, k)
                 /\ screen.num_cols
                      = NamesOfKind(Without(t, k), {"int64", "float64"})

C8_Witness ==
    /\ screen.page = "time_series"
    /\ widgets.file = << <<[name |-> <<"y">>, dtype |-> "float64"],
                           [name |-> <<"x","D","A","T","E","s">>, dtype |-> "int64"],
                           [name |-> <<"D","a","t","e">>, dtype |-> "object"]>> >>
    /\ screen.index = << <<"x","D","A","T","E","s">> >>
    /\ screen.columns = <<[name |-> <<"y">>, dtype |-> "float64"],
                          [name |-> <<"D","a","t","e">>, dtype |-> "object"]>>

\* C9: at the end of every run the screen rendered is the one of the
\* current value of page.
C9_ScreenIsCurrentPage ==
    Loaded => screen.page = session_state.page

\* C10: only navigation changes the session state: a run started by an
\* upload, a removal, a selection, a slider move, a Run T-Test or Run
\* Chi-Square click or a plain rerun, whatever its outcome, leaves
\* session_state as it was; and session_state never holds anything but page
\* (no table, no result).
C10_OnlyNavigationChangesSession ==
    /\ [](DOMAIN session_state \subseteq {"page"})
    /\ [][(Loaded /\ clicked' = "") => session_state' = session_state]_vars

C10_Witness ==
    /\ session_state = [page |-> "hypothesis"]
    /\ screen.t_p # <<>>
    /\ Rendered(screen, "ttest_ind")

====
